---- MODULE Spec2Model ----
(***************************************************************************)
(* Model of the telegraf input plugin plugins/inputs/github (github.go).   *)
(*                                                                         *)
(* One Gather cycle is a state machine: Gather checks the configuration    *)
(* and builds the API client, then processRepo runs once per configured    *)
(* repository, issuing up to three requests (repository metadata,          *)
(* releases list, traffic views) and adding one counter record or one      *)
(* error to the accumulator.  The remote API's answers are inputs, drawn   *)
(* from small sets.  Strings that the code takes apart (the repository     *)
(* identifiers) are sequences of one-character strings.                    *)
(***************************************************************************)
EXTENDS Integers, Sequences, FiniteSets

VARIABLES
    plugin,     \* the GitHub struct: Repos, APIBaseURL, AccessToken, Timeout
    pc,         \* position of the cycle: idle, processRepo, releases, views, done
    idx,        \* index into plugin.Repos of the repository being processed
    client,     \* the API client built by getClient
    local,      \* processRepo's locals: repoOwner, repoName, repoInfo, totalDownloadCount
    metrics,    \* the accumulator's records (a.AddCounter)
    errors,     \* the accumulator's errors (a.AddError)
    ret,        \* Gather's return value
    trace       \* history: every request, record and error of the cycle, in order

vars == <<plugin, pc, idx, client, local, metrics, errors, ret, trace>>

(***************************************************************************)
(* Bounds of the model.                                                    *)
(***************************************************************************)
MaxRepos == 2
MaxIdLen == 4
MaxViews == 3
MaxTs == 2
MaxReleases == 2
MaxAssets == 2

(***************************************************************************)
(* Program constants.                                                      *)
(***************************************************************************)
DefaultTimeout == 10
\* go-github sends no per_page when the options are nil: the API answers
\* with its first page, of 30 releases.
PerPage == 30
\* time.Time{}: the zero time, to which viewTimestamp is initialised.
ZeroTime == 0

Min(a, b) == IF a < b THEN a ELSE b

RECURSIVE SeqsUpTo(_, _)
SeqsUpTo(S, n) ==
    IF n = 0 THEN {<<>>}
    ELSE LET shorter == SeqsUpTo(S, n - 1)
         IN  shorter \cup {Append(s, x) : s \in {t \in shorter : Len(t) = n - 1}, x \in S}

(***************************************************************************)
(* Errors.                                                                 *)
(***************************************************************************)
NoError == [kind |-> "nil", detail |-> <<>>]
ErrEmptyRepoList == [kind |-> "github: Empty repo list", detail |-> <<>>]
ErrInvalidRepoId(repo) == [kind |-> "github: Invalid repo identifier", detail |-> repo]
ErrBaseURL == [kind |-> "parse base URL", detail |-> <<>>]
ErrRequest(endpoint) == [kind |-> "request failed", detail |-> <<endpoint>>]

(***************************************************************************)
(* splitRepoId: strings.Split(repo, "/") and the check of the part count.  *)
(***************************************************************************)
RECURSIVE StringsSplit(_, _)
StringsSplit(s, sep) ==
    IF \E i \in 1..Len(s) : s[i] = sep
    THEN LET i == CHOOSE k \in 1..Len(s) : s[k] = sep /\ \A j \in 1..(k - 1) : s[j] # sep
         IN  <<SubSeq(s, 1, i - 1)>> \o StringsSplit(SubSeq(s, i + 1, Len(s)), sep)
    ELSE <<s>>

splitRepoId(repo) ==
    LET repoParts == StringsSplit(repo, "/")
    IN  IF Len(repoParts) # 2
        THEN [owner |-> <<>>, name |-> <<>>, err |-> ErrInvalidRepoId(repo)]
        ELSE [owner |-> repoParts[1], name |-> repoParts[2], err |-> NoError]

(***************************************************************************)
(* getClient.                                                              *)
(***************************************************************************)
\* 0 stands for "no timeout" (http.Client's zero value).
NoTimeout == 0

\* lines 142-149: the client built with the configured timeout
TimeoutHTTPClient(p) ==
    [Timeout |-> p.Timeout, ResponseHeaderTimeout |-> p.Timeout, token |-> ""]

\* oauth2.NewClient(ctx, tokenSource) with ctx = context.Background(): a new
\* http.Client over the default transport, with no timeout of its own.
OAuth2NewClient(token) ==
    [Timeout |-> NoTimeout, ResponseHeaderTimeout |-> NoTimeout, token |-> token]

newHTTPClient(p) ==
    IF p.AccessToken # "" THEN OAuth2NewClient(p.AccessToken) ELSE TimeoutHTTPClient(p)

\* url.Parse as NewEnterpriseClient uses it: ":" has no scheme and fails.
URLParses(u) == u # ":"

NoClient == [http |-> [Timeout |-> NoTimeout, ResponseHeaderTimeout |-> NoTimeout, token |-> ""],
             baseURL |-> "", ok |-> FALSE]

getClient(p) ==
    LET httpClient == newHTTPClient(p)
    IN  IF p.APIBaseURL # ""
        THEN IF URLParses(p.APIBaseURL)
             THEN [client |-> [http |-> httpClient, baseURL |-> p.APIBaseURL, ok |-> TRUE],
                   err |-> NoError]
             ELSE [client |-> NoClient, err |-> ErrBaseURL]
        ELSE [client |-> [http |-> httpClient, baseURL |-> "https://api.github.com/", ok |-> TRUE],
              err |-> NoError]

(***************************************************************************)
(* processRepo's aggregations.                                             *)
(***************************************************************************)
RECURSIVE SumSeq(_)
SumSeq(s) == IF s = <<>> THEN 0 ELSE s[1] + SumSeq(Tail(s))

\* client.Repositories.ListReleases(ctx, owner, name, nil): one request, one page
ListReleasesPage(remote) == SubSeq(remote, 1, Min(Len(remote), PerPage))

\* lines 93-98
RECURSIVE TotalDownloadCount(_)
TotalDownloadCount(repoReleases) ==
    IF repoReleases = <<>> THEN 0
    ELSE SumSeq(repoReleases[1]) + TotalDownloadCount(Tail(repoReleases))

\* lines 100-102
NoView == [viewTimestamp |-> ZeroTime, totalViews |-> 0, uniqueViews |-> 0]

\* a comparison that also replaces the selected entry on an equal timestamp
After_OrEqual(t, u) == t >= u

\* line 110: Time.After is strict
After(t, u) == t > u

\* lines 109-115
RECURSIVE LatestViewFrom(_, _)
LatestViewFrom(acc, views) ==
    IF views = <<>> THEN acc
    ELSE LatestViewFrom(
             IF After(views[1].timestamp, acc.viewTimestamp)
             THEN [viewTimestamp |-> views[1].timestamp,
                   totalViews |-> views[1].count,
                   uniqueViews |-> views[1].uniques]
             ELSE acc,
             Tail(views))

LatestView(views) == LatestViewFrom(NoView, views)

\* a processRepo that asks for the traffic views whatever the token
NeedsTrafficViews_Always(p) == TRUE

\* line 104
NeedsTrafficViews(p) == p.AccessToken # ""

\* lines 117-126
FieldNames ==
    {"forks_count", "stargazers_count", "subscribers_count",
     "total_download_count", "total_views", "unique_views"}

\* a record with the forks and stargazers counts exchanged
MakeRecord_Swapped(repo, repoInfo, totalDownloadCount, totalViews, uniqueViews) ==
    [name |-> "github_info",
     type |-> "counter",
     tags |-> [k \in {"github_repo"} |-> repo],
     fields |-> [f \in FieldNames |->
                   CASE f = "forks_count" -> repoInfo.StargazersCount
                     [] f = "stargazers_count" -> repoInfo.ForksCount
                     [] f = "subscribers_count" -> repoInfo.SubscribersCount
                     [] f = "total_download_count" -> totalDownloadCount
                     [] f = "total_views" -> totalViews
                     [] f = "unique_views" -> uniqueViews]]

MakeRecord(repo, repoInfo, totalDownloadCount, totalViews, uniqueViews) ==
    [name |-> "github_info",
     type |-> "counter",
     tags |-> [k \in {"github_repo"} |-> repo],
     fields |-> [f \in FieldNames |->
                   CASE f = "forks_count" -> repoInfo.ForksCount
                     [] f = "stargazers_count" -> repoInfo.StargazersCount
                     [] f = "subscribers_count" -> repoInfo.SubscribersCount
                     [] f = "total_download_count" -> totalDownloadCount
                     [] f = "total_views" -> totalViews
                     [] f = "unique_views" -> uniqueViews]]

\* telegraf's accumulator drops a nil error
AddError(errs, err) == IF err = NoError THEN errs ELSE Append(errs, err)


(***************************************************************************)
(* Control flow of Gather and processRepo.                                 *)
(***************************************************************************)
NotReturned == [kind |-> "not returned", detail |-> <<>>]

\* a Gather without its check of the repository list
RepoListEmpty_Never(p) == FALSE

\* line 63
RepoListEmpty(p) == Len(p.Repos) = 0

\* a processRepo that goes on after a failed request
ContinueAfter_Always(err) == TRUE

\* lines 86-88, 90-92, 106-108: "if err != nil { return err }"
ContinueAfter(err) == err = NoError

\* a loop that stops at the first repository that fails
AfterRepo_StopOnError(i, err, n) == IF err = NoError THEN i + 1 ELSE n + 1

\* lines 71-73: the loop goes on to the next repository whatever processRepo returned
AfterRepo(i, err, n) == i + 1

\* a Gather that returns the first repository error
ReturnAfterLoop_FirstError(errs) == IF errs = <<>> THEN NoError ELSE errs[1]

\* line 74
ReturnAfterLoop(errs) == NoError

ZeroInfo == [ForksCount |-> 0, StargazersCount |-> 0, SubscribersCount |-> 0]
NoLocal == [repoOwner |-> <<>>, repoName |-> <<>>, repoInfo |-> ZeroInfo, totalDownloadCount |-> 0]
NoRecord == MakeRecord(<<>>, ZeroInfo, 0, 0, 0)

\* What the remote API answers to a request: an error, or the decoded body.
Responses(endpoint, bodies, failedBody) ==
    {[err |-> ErrRequest(endpoint), data |-> failedBody]}
        \cup {[err |-> NoError, data |-> b] : b \in bodies}

RequestEvent(endpoint, owner, name, resp) ==
    [kind |-> "request", idx |-> idx, endpoint |-> endpoint, ok |-> resp.err = NoError,
     timeout |-> client.http.Timeout, token |-> client.http.token,
     owner |-> owner, name |-> name, data |-> resp.data]

OutcomeEvent(err, rec) ==
    [kind |-> IF err = NoError THEN "record" ELSE "error", idx |-> idx, endpoint |-> "",
     ok |-> err = NoError, timeout |-> NoTimeout, token |-> "",
     owner |-> <<>>, name |-> <<>>, data |-> IF err = NoError THEN rec ELSE NoRecord]

\* processRepo returns err (and has added rec when err is nil); Gather adds the
\* error and moves on, or returns after the last repository.
Return(err, rec, events) ==
    LET n == AfterRepo(idx, err, Len(plugin.Repos))
    IN  /\ metrics' = IF err = NoError THEN Append(metrics, rec) ELSE metrics
        /\ errors' = AddError(errors, err)
        /\ trace' = trace \o events \o <<OutcomeEvent(err, rec)>>
        /\ idx' = n
        /\ pc' = IF n > Len(plugin.Repos) THEN "done" ELSE "processRepo"
        /\ ret' = IF n > Len(plugin.Repos) THEN ReturnAfterLoop(errors') ELSE ret
        /\ local' = NoLocal
        /\ UNCHANGED <<plugin, client>>

\* lines 62-70
Gather ==
    /\ pc = "idle"
    /\ IF RepoListEmpty(plugin)
       THEN /\ ret' = ErrEmptyRepoList
            /\ pc' = "done"
            /\ UNCHANGED client
       ELSE LET r == getClient(plugin)
            IN  IF r.err # NoError
                THEN /\ ret' = r.err
                     /\ pc' = "done"
                     /\ UNCHANGED client
                ELSE /\ client' = r.client
                     /\ pc' = "processRepo"
                     /\ UNCHANGED ret
    /\ UNCHANGED <<plugin, idx, local, metrics, errors, trace>>

\* lines 77-88: splitRepoId and the repository metadata request
ReposGet(infos) ==
    /\ pc = "processRepo"
    /\ LET repo == plugin.Repos[idx]
           s == splitRepoId(repo)
       IN  IF s.err # NoError
           THEN Return(s.err, NoRecord, <<>>)
           ELSE \E resp \in Responses("get", infos, ZeroInfo) :
                   LET ev == RequestEvent("get", s.owner, s.name, resp)
                   IN  IF ContinueAfter(resp.err)
                       THEN /\ local' = [repoOwner |-> s.owner, repoName |-> s.name,
                                         repoInfo |-> resp.data, totalDownloadCount |-> 0]
                            /\ trace' = Append(trace, ev)
                            /\ pc' = "releases"
                            /\ UNCHANGED <<plugin, idx, client, metrics, errors, ret>>
                       ELSE Return(resp.err, NoRecord, <<ev>>)

\* lines 89-98, and lines 100-104, 117-127 when no traffic views are asked for
ReposListReleases(releaseLists) ==
    /\ pc = "releases"
    /\ \E resp \in Responses("releases", releaseLists, <<>>) :
          LET ev == RequestEvent("releases", local.repoOwner, local.repoName, resp)
              total == TotalDownloadCount(ListReleasesPage(resp.data))
          IN  IF ContinueAfter(resp.err)
              THEN IF NeedsTrafficViews(plugin)
                   THEN /\ local' = [local EXCEPT !.totalDownloadCount = total]
                        /\ trace' = Append(trace, ev)
                        /\ pc' = "views"
                        /\ UNCHANGED <<plugin, idx, client, metrics, errors, ret>>
                   ELSE Return(NoError,
                               MakeRecord(plugin.Repos[idx], local.repoInfo, total,
                                          NoView.totalViews, NoView.uniqueViews),
                               <<ev>>)
              ELSE Return(resp.err, NoRecord, <<ev>>)

\* lines 105-127
ReposListTrafficViews(viewLists) ==
    /\ pc = "views"
    /\ \E resp \in Responses("views", viewLists, <<>>) :
          LET ev == RequestEvent("views", local.repoOwner, local.repoName, resp)
              v == LatestView(resp.data)
          IN  IF ContinueAfter(resp.err)
              THEN Return(NoError,
                          MakeRecord(plugin.Repos[idx], local.repoInfo,
                                     local.totalDownloadCount, v.totalViews, v.uniqueViews),
                          <<ev>>)
              ELSE Return(resp.err, NoRecord, <<ev>>)

(***************************************************************************)
(* Configurations and remote answers.                                      *)
(***************************************************************************)
AccessTokens == {"", "secret_token"}
APIBaseURLs == {"", "http://127.0.0.1:8080", ":"}
Timeouts == {DefaultTimeout, 3}

Plugins(repoLists) ==
    [Repos : repoLists, APIBaseURL : APIBaseURLs, AccessToken : AccessTokens,
     Timeout : Timeouts]

InitWith(repoLists) ==
    /\ plugin \in Plugins(repoLists)
    /\ pc = "idle"
    /\ idx = 1
    /\ client = NoClient
    /\ local = NoLocal
    /\ metrics = <<>>
    /\ errors = <<>>
    /\ ret = NotReturned
    /\ trace = <<>>

NextWith(infos, releaseLists, viewLists) ==
    \/ Gather
    \/ ReposGet(infos)
    \/ ReposListReleases(releaseLists)
    \/ ReposListTrafficViews(viewLists)

\* "owner/name", and identifiers with no and with two separators
RepoIds == {<<"o", "/", "n">>, <<"o", "n">>, <<"o", "/", "n", "/">>}

\* the answers of github_test.go, and one more of each
InfoBodies ==
    {[ForksCount |-> 2, StargazersCount |-> 1, SubscribersCount |-> 3],
     [ForksCount |-> 0, StargazersCount |-> 7, SubscribersCount |-> 0]}
TestReleases == << <<1, 1, 1, 2, 1, 2>>, <<2, 4, 2, 3, 3, 4>>, <<>> >>
ReleaseBodies == {<<>>, TestReleases}
ViewBodies ==
    {<<>>,
     <<[timestamp |-> 1, count |-> 440, uniques |-> 143],
       [timestamp |-> 2, count |-> 614, uniques |-> 237]>>}

Init == InitWith(SeqsUpTo(RepoIds, MaxRepos))
Next == NextWith(InfoBodies, ReleaseBodies, ViewBodies)
Spec == Init /\ [][Next]_vars


(***************************************************************************)
(* Specifications with one input drawn from a wider set.                   *)
(***************************************************************************)
\* every identifier of up to MaxIdLen characters, one repository configured
IdChars == {"o", "n", "/"}
AllRepoIds == SeqsUpTo(IdChars, MaxIdLen)
InitSplit == InitWith({<<id>> : id \in AllRepoIds})
SpecSplit == InitSplit /\ [][Next]_vars

\* every traffic-views list of up to MaxViews entries, timestamps from the
\* zero time on, ties included
ViewCounts == {<<440, 143>>, <<614, 237>>}
ViewEntries ==
    {[timestamp |-> t, count |-> c[1], uniques |-> c[2]] : t \in ZeroTime..MaxTs, c \in ViewCounts}
AllViewBodies == SeqsUpTo(ViewEntries, MaxViews)
InitOne == InitWith({<< <<"o", "/", "n">> >>})
NextViews == NextWith({ZeroInfo}, {<<>>}, AllViewBodies)
SpecViews == InitOne /\ [][NextViews]_vars

\* every release list of up to MaxReleases releases of up to MaxAssets assets,
\* the list of github_test.go, and lists that fill and overflow one page
DownloadCounts == {1, 2}
AssetLists == SeqsUpTo(DownloadCounts, MaxAssets)
LongReleaseLists ==
    {[i \in 1..n |-> IF i <= PerPage THEN a ELSE b] :
        n \in {PerPage, PerPage + 1}, a \in AssetLists, b \in AssetLists}
AllReleaseBodies == SeqsUpTo(AssetLists, MaxReleases) \cup LongReleaseLists \cup {TestReleases}
NextReleases == NextWith({ZeroInfo}, AllReleaseBodies, {<<>>})
SpecReleases == InitOne /\ [][NextReleases]_vars

(***************************************************************************)
(* The history of one repository.                                          *)
(***************************************************************************)
EventsOf(i) == SelectSeq(trace, LAMBDA e : e.idx = i)
RequestsOf(i) == SelectSeq(trace, LAMBDA e : e.idx = i /\ e.kind = "request")
RecordsOf(i) == SelectSeq(trace, LAMBDA e : e.idx = i /\ e.kind = "record")
ErrorsOf(i) == SelectSeq(trace, LAMBDA e : e.idx = i /\ e.kind = "error")
Endpoints(reqs) == [k \in 1..Len(reqs) |-> reqs[k].endpoint]
IsPrefix(s, t) == Len(s) <= Len(t) /\ \A k \in 1..Len(s) : s[k] = t[k]

\* repository i was handed to processRepo and processRepo has returned
Processed(i) == i < idx
\* an invalid identifier or a failing fetch
Failed(i) ==
    \/ splitRepoId(plugin.Repos[i]).err # NoError
    \/ \E k \in 1..Len(RequestsOf(i)) : ~RequestsOf(i)[k].ok
Done == pc = "done"
RepoIndices == 1..Len(plugin.Repos)


(***************************************************************************)
(* C1: per-repository failures are isolated.                               *)
(***************************************************************************)
\* every repository handed to processRepo ends in exactly one record and no
\* error (all its fetches succeeded) or in exactly one error and no record
\* (it failed), and the accumulator holds exactly those records and errors
OneOutcomeEach ==
    /\ \A i \in RepoIndices :
          Processed(i) =>
             /\ Len(RecordsOf(i)) = (IF Failed(i) THEN 0 ELSE 1)
             /\ Len(ErrorsOf(i)) = (IF Failed(i) THEN 1 ELSE 0)
    /\ Len(metrics) = Cardinality({i \in RepoIndices : Processed(i) /\ ~Failed(i)})
    /\ Len(errors) = Cardinality({i \in RepoIndices : Processed(i) /\ Failed(i)})

\* C1 as claimed: for every non-empty repository list, a finished cycle has
\* processed every repository of the list, each with exactly one outcome,
\* whatever failed before it.
C1_Original ==
    (Done /\ Len(plugin.Repos) > 0) =>
        /\ \A i \in RepoIndices : Processed(i)
        /\ OneOutcomeEach

\* C1 as amended: the same, for the cycles in which getClient built the API
\* client; when it did not, no repository is processed.  At every moment the
\* repositories processed so far have exactly one outcome each.
C1_Isolation ==
    /\ OneOutcomeEach
    /\ (Done /\ Len(plugin.Repos) > 0 /\ getClient(plugin).err = NoError) =>
          \A i \in RepoIndices : Processed(i)
    /\ (Done /\ getClient(plugin).err # NoError) =>
          \A i \in RepoIndices : ~Processed(i)

\* a finished cycle in which the first repository failed and the second was collected
C1_Witness ==
    /\ Done
    /\ Len(plugin.Repos) >= 2
    /\ Failed(1) /\ Len(ErrorsOf(1)) = 1
    /\ ~Failed(2) /\ Len(RecordsOf(2)) = 1

(***************************************************************************)
(* C2: an empty repository list is a configuration error.                  *)
(***************************************************************************)
\* C2: with an empty repository list the cycle never leaves Gather: it
\* returns the empty-list error, and there is no request, record or error.
C2_EmptyList ==
    Len(plugin.Repos) = 0 =>
        /\ pc \in {"idle", "done"}
        /\ Done => ret = ErrEmptyRepoList /\ ret # NoError
        /\ trace = <<>> /\ metrics = <<>> /\ errors = <<>>

\* Gather has returned on an empty list
C2_Witness == Done /\ Len(plugin.Repos) = 0 /\ ret = ErrEmptyRepoList

(***************************************************************************)
(* C10: Gather's return value.                                             *)
(***************************************************************************)
CycleLevelFailure == Len(plugin.Repos) = 0 \/ getClient(plugin).err # NoError

\* C10: Gather returns only at the end of the cycle; it returns an error
\* exactly when the list is empty or the client cannot be built, and then
\* nothing was requested, recorded or reported; otherwise it returns nil,
\* also when every repository failed.
C10_ReturnValue ==
    /\ ~Done => ret = NotReturned
    /\ Done =>
          /\ ret # NotReturned
          /\ (ret # NoError) <=> CycleLevelFailure
          /\ ret # NoError => trace = <<>> /\ metrics = <<>> /\ errors = <<>>

\* Gather returned nil although every repository of the list failed
C10_Witness ==
    /\ Done /\ ret = NoError
    /\ Len(plugin.Repos) >= 2
    /\ \A i \in RepoIndices : Failed(i)
    /\ Len(errors) = Len(plugin.Repos)

\* Gather returned the client construction error
C10_WitnessClient == Done /\ ret = ErrBaseURL /\ Len(plugin.Repos) > 0


(***************************************************************************)
(* C3: identifier parsing.                                                 *)
(***************************************************************************)
\* exactly one "/", with at least one character before and after it
SlashPositions(repo) == {k \in 1..Len(repo) : repo[k] = "/"}
TwoNonEmptySegments(repo) ==
    /\ Cardinality(SlashPositions(repo)) = 1
    /\ \A k \in SlashPositions(repo) : 1 < k /\ k < Len(repo)
OwnerOf(repo) == SubSeq(repo, 1, (CHOOSE k \in SlashPositions(repo) : TRUE) - 1)
NameOf(repo) == SubSeq(repo, (CHOOSE k \in SlashPositions(repo) : TRUE) + 1, Len(repo))

\* C3: an identifier is accepted exactly when it has two non-empty segments,
\* and then the requests carry those segments as owner and name; any other
\* identifier ends in the invalid-identifier error and causes no request.
C3_SplitRepoId ==
    \A i \in RepoIndices :
       Processed(i) =>
          LET repo == plugin.Repos[i]
          IN  IF TwoNonEmptySegments(repo)
              THEN /\ Len(RequestsOf(i)) >= 1
                   /\ \A k \in 1..Len(RequestsOf(i)) :
                         /\ RequestsOf(i)[k].owner = OwnerOf(repo)
                         /\ RequestsOf(i)[k].name = NameOf(repo)
              ELSE /\ Len(RequestsOf(i)) = 0
                   /\ Len(ErrorsOf(i)) = 1
                   /\ errors # <<>>
                   /\ errors[Len(errors)] = ErrInvalidRepoId(repo)

(***************************************************************************)
(* C4: no traffic views without a token.                                   *)
(***************************************************************************)
\* C4: with an empty access token no traffic-views request is ever issued
\* and every record has total_views = 0 and unique_views = 0.
C4_NoTokenNoViews ==
    plugin.AccessToken = "" =>
        /\ \A k \in 1..Len(trace) : trace[k].endpoint # "views"
        /\ pc # "views"
        /\ \A k \in 1..Len(metrics) :
              /\ metrics[k].fields["total_views"] = 0
              /\ metrics[k].fields["unique_views"] = 0

\* a cycle without a token that emitted records for two repositories
C4_Witness == Done /\ plugin.AccessToken = "" /\ Len(metrics) = 2

(***************************************************************************)
(* C5: the traffic-views sample that is reported.                          *)
(***************************************************************************)
MaxTimestamp(views) ==
    CHOOSE t \in {views[k].timestamp : k \in 1..Len(views)} :
        \A k \in 1..Len(views) : views[k].timestamp <= t
\* the first entry, in list order, that carries the maximum timestamp
FirstOfMaxTimestamp(views) ==
    views[CHOOSE k \in 1..Len(views) :
            /\ views[k].timestamp = MaxTimestamp(views)
            /\ \A j \in 1..(k - 1) : views[j].timestamp # MaxTimestamp(views)]

\* the records of the repositories whose traffic-views fetch succeeded, each
\* with the list that fetch returned
ViewsAndRecord(i) ==
    [views |-> RequestsOf(i)[3].data, fields |-> RecordsOf(i)[1].data.fields]
HasViewsRecord(i) ==
    /\ Len(RecordsOf(i)) = 1
    /\ Len(RequestsOf(i)) = 3
    /\ RequestsOf(i)[3].endpoint = "views"

\* C5 as claimed: the record carries the count and uniques of the entry with
\* the maximum timestamp, whichever entry of the list that is and wherever
\* it stands; 0 and 0 for the empty list.
C5_Original ==
    \A i \in RepoIndices :
       HasViewsRecord(i) =>
          LET vr == ViewsAndRecord(i)
          IN  IF vr.views = <<>>
              THEN vr.fields["total_views"] = 0 /\ vr.fields["unique_views"] = 0
              ELSE \A k \in 1..Len(vr.views) :
                      vr.views[k].timestamp = MaxTimestamp(vr.views) =>
                         /\ vr.fields["total_views"] = vr.views[k].count
                         /\ vr.fields["unique_views"] = vr.views[k].uniques

\* C5 as amended: the record carries the count and uniques of the first
\* entry in list order among those with the maximum timestamp, when that
\* timestamp is after the zero time; 0 and 0 when the list is empty or no
\* timestamp is after the zero time.
C5_LatestView ==
    \A i \in RepoIndices :
       HasViewsRecord(i) =>
          LET vr == ViewsAndRecord(i)
          IN  IF vr.views = <<>> \/ MaxTimestamp(vr.views) <= ZeroTime
              THEN vr.fields["total_views"] = 0 /\ vr.fields["unique_views"] = 0
              ELSE /\ vr.fields["total_views"] = FirstOfMaxTimestamp(vr.views).count
                   /\ vr.fields["unique_views"] = FirstOfMaxTimestamp(vr.views).uniques

\* a record made from a list whose latest entry stands before an older one
C5_Witness ==
    /\ Done
    /\ HasViewsRecord(1)
    /\ Len(ViewsAndRecord(1).views) = 3
    /\ ViewsAndRecord(1).views[1].timestamp = 2
    /\ ViewsAndRecord(1).views[2].timestamp = 1
    /\ ViewsAndRecord(1).views[1].count # ViewsAndRecord(1).views[2].count
    /\ ViewsAndRecord(1).fields["total_views"] = ViewsAndRecord(1).views[1].count

(***************************************************************************)
(* C6: the total download count.                                           *)
(***************************************************************************)
\* C6: every record carries the sum of the download counts of every asset
\* of every release the repository has.
C6_TotalDownloadCount ==
    \A i \in RepoIndices :
       (Len(RecordsOf(i)) = 1 /\ Len(RequestsOf(i)) >= 2) =>
          RecordsOf(i)[1].data.fields["total_download_count"]
              = TotalDownloadCount(RequestsOf(i)[2].data)

(***************************************************************************)
(* C7: the shape of a record.                                              *)
(***************************************************************************)
RecordShape(name, tag) ==
    \A i \in RepoIndices :
       Len(RecordsOf(i)) = 1 =>
          LET r == RecordsOf(i)[1].data
              info == RequestsOf(i)[1].data
          IN  /\ \E k \in 1..Len(metrics) : metrics[k] = r
              /\ r.name = name
              /\ r.type = "counter"
              /\ DOMAIN r.tags = {tag}
              /\ \A t \in DOMAIN r.tags : r.tags[t] = plugin.Repos[i]
              /\ DOMAIN r.fields = FieldNames
              /\ r.fields["forks_count"] = info.ForksCount
              /\ r.fields["stargazers_count"] = info.StargazersCount
              /\ r.fields["subscribers_count"] = info.SubscribersCount

\* C7 as claimed: every record is a counter named repository_info with the
\* one tag repository = the configured identifier and the six fields, the
\* first three as the metadata fetch returned them.
C7_Original == RecordShape("repository_info", "repository") /\ Len(metrics) = Len(SelectSeq(trace, LAMBDA e : e.kind = "record"))

\* C7 as amended: the same with the names the code uses: the record is
\* named github_info and its one tag is github_repo.
C7_Record == RecordShape("github_info", "github_repo") /\ Len(metrics) = Len(SelectSeq(trace, LAMBDA e : e.kind = "record"))

\* a record whose metadata answer has different forks and stargazers counts
C7_Witness ==
    /\ Done
    /\ Len(RecordsOf(1)) = 1
    /\ RecordsOf(1)[1].data.fields["forks_count"] = 2
    /\ RecordsOf(1)[1].data.fields["stargazers_count"] = 1
    /\ RecordsOf(1)[1].data.fields["subscribers_count"] = 3

(***************************************************************************)
(* C8: the timeout of the requests.                                        *)
(***************************************************************************)
\* C8: every request of the cycle is sent by a client that carries the
\* configured timeout.
C8_TimeoutOnEveryRequest ==
    \A k \in 1..Len(trace) :
       trace[k].kind = "request" =>
          /\ trace[k].timeout = plugin.Timeout
          /\ trace[k].timeout # NoTimeout

(***************************************************************************)
(* C9: order of the requests.                                              *)
(***************************************************************************)
EndpointOrder == <<"get", "releases", "views">>

\* C9: the events of the cycle come repository by repository in list order;
\* a repository's requests are a prefix of get, releases, views, each sent
\* after the one before it succeeded; a failed request is followed by that
\* repository's error and nothing else; a record follows only successful
\* requests, all that the configuration asks for.
C9_RequestOrder ==
    /\ trace # <<>> => trace[1].idx = 1
    /\ \A k \in 1..(Len(trace) - 1) :
          trace[k + 1].idx = (IF trace[k].kind = "request" THEN trace[k].idx
                                                           ELSE trace[k].idx + 1)
    /\ \A k \in 1..(Len(trace) - 1) :
          (trace[k].kind = "request" /\ ~trace[k].ok) => trace[k + 1].kind = "error"
    /\ \A k \in 2..Len(trace) :
          (trace[k].kind = "request" /\ trace[k].endpoint # "get") =>
              trace[k - 1].kind = "request" /\ trace[k - 1].ok
    /\ \A i \in RepoIndices :
          /\ IsPrefix(Endpoints(RequestsOf(i)), EndpointOrder)
          /\ Len(RecordsOf(i)) + Len(ErrorsOf(i)) <= 1
          /\ Len(RecordsOf(i)) = 1 =>
                /\ \A k \in 1..Len(RequestsOf(i)) : RequestsOf(i)[k].ok
                /\ Len(RequestsOf(i)) = (IF plugin.AccessToken = "" THEN 2 ELSE 3)
                /\ EventsOf(i)[Len(EventsOf(i))].kind = "record"
          /\ (\E k \in 1..Len(RequestsOf(i)) : ~RequestsOf(i)[k].ok) =>
                /\ Len(RecordsOf(i)) = 0
                /\ \A k \in 1..(Len(RequestsOf(i)) - 1) : RequestsOf(i)[k].ok

\* the first repository went through its three requests to a record, the
\* second stopped at its failed releases request
C9_Witness ==
    /\ Done
    /\ Len(plugin.Repos) = 2
    /\ Len(RequestsOf(1)) = 3 /\ Len(RecordsOf(1)) = 1
    /\ Len(RequestsOf(2)) = 2 /\ ~RequestsOf(2)[2].ok /\ Len(ErrorsOf(2)) = 1

====
